---- MODULE Spec2Model ----
(***************************************************************************)
(* Model of the RISC-V feature implication engine of std_detect:           *)
(*   crates/std_detect/src/detect/os/riscv.rs        imply_features        *)
(*   crates/std_detect/src/detect/os/linux/riscv.rs  imply_features        *)
(* A cache::Initializer is modelled as the set of the Feature names whose  *)
(* bit is set.  One invocation of imply! is one step of the model.         *)
(***************************************************************************)
EXTENDS Integers, Sequences, FiniteSets, TLC

(* Bounds of the model. *)
MaxSeeds == 2       \* an input is a union of at most MaxSeeds seed sets
MaxOrderSeeds == 1  \* the same, for the runs with a permuted rule order
MaxRot == 8         \* rule orders tried: rotations by 0..MaxRot, and reversed
MaxCalls == 2       \* the caller feeds a result back at most MaxCalls - 1 times
MaxPasses == 41     \* cap on the iterations of `loop` in one call

(***************************************************************************)
(* The capability identifiers named by the two source files.               *)
(***************************************************************************)
TableFeature ==
    { "zkn", "zbkb", "zbkc", "zbkx", "zkne", "zknd", "zknh",
      "zks", "zksed", "zksh",
      "zk", "zkr", "zkt",
      "a", "zalrsc", "zaamo",
      "b", "zba", "zbb", "zbs",
      "zhinx", "zhinxmin", "zdinx", "zfinx",
      "zfh", "zfhmin", "q", "d", "f",
      "zicntr", "zihpm", "zicsr", "s", "h" }

HwcapFeature == { "a", "c", "d", "f", "h", "m", "rv64i", "rv32i", "rv32e" }

Feature == TableFeature \cup HwcapFeature

(***************************************************************************)
(* cache::Initializer: test, set and equality.                             *)
(***************************************************************************)
test(v, x) == x \in v

set(v, x) == v \cup {x}

(***************************************************************************)
(* The macros imply! and group!.  An invocation of imply! is a record: the *)
(* arm that matched it, the $from list and the $to list.                   *)
(***************************************************************************)
any_arm(from, to) == [arm |-> "any", from |-> from, to |-> to]

all_arm(from, to) == [arm |-> "all", from |-> from, to |-> to]

group_no_reverse(g, members) == << any_arm(<<g>>, members) >>

group_no_forward(g, members) == << all_arm(members, <<g>>) >>

group(g, members) == << any_arm(<<g>>, members), all_arm(members, <<g>>) >>

RECURSIVE set_each(_, _)
set_each(v, to) ==
    IF to = << >> THEN v ELSE set_each(set(v, Head(to)), Tail(to))

imply_overwrite(r, v) ==
    IF r.arm = "any"
    THEN IF \E i \in DOMAIN r.from : test(v, r.from[i]) THEN set_each({}, r.to) ELSE v
    ELSE IF \A i \in DOMAIN r.from : test(v, r.from[i]) THEN set_each({}, r.to) ELSE v

imply_all_as_any(r, v) ==
    IF \E i \in DOMAIN r.from : test(v, r.from[i]) THEN set_each(v, r.to) ELSE v

imply_any_as_all(r, v) ==
    IF \A i \in DOMAIN r.from : test(v, r.from[i]) THEN set_each(v, r.to) ELSE v

RECURSIVE toggle_each(_, _)
toggle_each(v, to) ==
    IF to = << >> THEN v
    ELSE toggle_each((v \ {Head(to)}) \cup ({Head(to)} \ v), Tail(to))

imply_toggle(r, v) ==
    IF r.arm = "any"
    THEN IF \E i \in DOMAIN r.from : test(v, r.from[i]) THEN toggle_each(v, r.to) ELSE v
    ELSE IF \A i \in DOMAIN r.from : test(v, r.from[i]) THEN toggle_each(v, r.to) ELSE v

imply(r, v) ==
    IF r.arm = "any"
    THEN IF \E i \in DOMAIN r.from : test(v, r.from[i]) THEN set_each(v, r.to) ELSE v
    ELSE IF \A i \in DOMAIN r.from : test(v, r.from[i]) THEN set_each(v, r.to) ELSE v

(***************************************************************************)
(* The rule table, in the order written in imply_features.                 *)
(***************************************************************************)
zkn_members == << "zbkb", "zbkc", "zbkx", "zkne", "zknd", "zknh" >>

zks_members == << "zbkb", "zbkc", "zbkx", "zksed", "zksh" >>

zk_members == << "zkn", "zkr", "zkt" >>

a_members == << "zalrsc", "zaamo" >>

b_members == << "zba", "zbb", "zbs" >>

group_zkn == group("zkn", zkn_members)

group_zks == group("zks", zks_members)

group_zk == group("zk", zk_members)

group_a == group("a", a_members)

group_b == group("b", b_members)

imply_zhinxmin == any_arm(<< "zhinx" >>, << "zhinxmin" >>)

imply_zfinx_all == all_arm(<< "zdinx", "zhinxmin" >>, << "zfinx" >>)

imply_zfinx == any_arm(<< "zdinx", "zhinxmin" >>, << "zfinx" >>)

imply_zfhmin == any_arm(<< "zfh" >>, << "zfhmin" >>)

imply_d_reversed == any_arm(<< "d" >>, << "q" >>)

imply_d == any_arm(<< "q" >>, << "d" >>)

imply_f_all == all_arm(<< "d", "zfhmin" >>, << "f" >>)

imply_f == any_arm(<< "d", "zfhmin" >>, << "f" >>)

imply_zicsr == any_arm(<< "zicntr", "zihpm", "zkr", "f", "zfinx" >>, << "zicsr" >>)

imply_zicsr_priv_vacuous == all_arm(<< >>, << "zicsr" >>)

imply_zicsr_priv == any_arm(<< "s", "h" >>, << "zicsr" >>)

Table_zk_first ==
    group_zk \o group_zkn \o group_zks \o group_a \o group_b
    \o << imply_zhinxmin, imply_zfinx, imply_zfhmin, imply_d, imply_f,
          imply_zicsr, imply_zicsr_priv >>

Table_reversed ==
    << imply_zicsr_priv, imply_zicsr, imply_f, imply_d, imply_zfhmin,
       imply_zfinx, imply_zhinxmin >>
    \o group_b \o group_a \o group_zk \o group_zks \o group_zkn

Table ==
    group_zkn \o group_zks \o group_zk \o group_a \o group_b
    \o << imply_zhinxmin, imply_zfinx, imply_zfhmin, imply_d, imply_f,
          imply_zicsr, imply_zicsr_priv >>

NRules == Len(Table)

(***************************************************************************)
(* The loop of imply_features.                                             *)
(***************************************************************************)
converged_never(p, v) == FALSE

converged_always(p, v) == TRUE

converged(p, v) == p = v

(* One full pass: every rule, in the order `ord`, on the same working set. *)
RECURSIVE pass_from(_, _, _)
pass_from(ord, i, v) ==
    IF i > Len(ord) THEN v ELSE pass_from(ord, i + 1, imply(Table[ord[i]], v))

(* imply_features as a function of its argument, rules in written order.   *)
RECURSIVE imply_features(_)
imply_features(v) ==
    LET prev0 == v
        next == pass_from([i \in 1..NRules |-> i], 1, v)
    IN  IF converged(prev0, next) THEN next ELSE imply_features(next)

(* the number of times that call runs the body of its loop *)
RECURSIVE imply_passes(_)
imply_passes(v) ==
    LET prev0 == v
        next == pass_from([i \in 1..NRules |-> i], 1, v)
    IN  IF converged(prev0, next) THEN 1 ELSE 1 + imply_passes(next)

(***************************************************************************)
(* Inputs.                                                                 *)
(***************************************************************************)
Range(s) == { s[i] : i \in DOMAIN s }

Seeds ==
    { {x} : x \in Feature }
    \cup { Range(zkn_members), Range(zks_members), Range(zk_members),
           Range(a_members), Range(b_members) }

RECURSIVE Unions(_)
Unions(k) ==
    IF k = 0 THEN { {} }
    ELSE LET P == Unions(k - 1) IN P \cup { p \cup s : p \in P, s \in Seeds }

Identity == [i \in 1..NRules |-> i]

Rot(k) == [i \in 1..NRules |-> ((i - 1 + k) % NRules) + 1]

Rev(p) == [i \in 1..NRules |-> p[NRules + 1 - i]]

Swap(j) ==
    [i \in 1..NRules |-> IF i = j THEN j + 1 ELSE IF i = j + 1 THEN j ELSE i]

(* The rule orders tried: rotations of the written order, their reversals, *)
(* and every exchange of two neighbouring rules.                           *)
Orders ==
    { Rot(k) : k \in 0..MaxRot } \cup { Rev(Rot(k)) : k \in 0..MaxRot }
    \cup { Swap(j) : j \in 1..(NRules - 1) }

(***************************************************************************)
(* State.                                                                  *)
(***************************************************************************)
VARIABLES
    initial,    \* the argument of the current call of imply_features
    value,      \* `value`, the working set
    prev,       \* `prev`, the snapshot taken at the top of the loop
    pc,         \* "loop" | "rules" | "check" | "done"
    row,        \* the next rule of the pass
    order,      \* the order in which a pass applies the rules
    passes,     \* iterations of `loop` started in the current call
    calls,      \* calls of imply_features made so far
    auxv        \* detect_features: "unread" | "ok" | "err"; "none" without it

vars == << initial, value, prev, pc, row, order, passes, calls, auxv >>

TypeOK ==
    /\ initial \subseteq Feature
    /\ value \subseteq Feature
    /\ prev \subseteq Feature
    /\ pc \in { "loop", "rules", "check", "done",
                "detect", "panicked",
                "linux_loop", "linux_rules", "linux_check", "linux_done" }
    /\ row \in 1..NRules
    /\ order = Identity \/ order \in Orders
    /\ passes \in 0..MaxPasses
    /\ calls \in 0..MaxCalls
    /\ auxv \in { "none", "unread", "ok", "err" }

Start(s, ord) ==
    /\ initial = s
    /\ value = s
    /\ prev = s
    /\ pc = "loop"
    /\ row = 1
    /\ order = ord
    /\ passes = 0
    /\ calls = 1
    /\ auxv = "none"

Init == \E s \in Unions(MaxSeeds) : Start(s, Identity)

InitOrder == \E s \in Unions(MaxOrderSeeds) : \E ord \in Orders : Start(s, ord)

(* let prev = value; *)
Snapshot ==
    /\ pc = "loop"
    /\ passes < MaxPasses
    /\ prev' = value
    /\ row' = 1
    /\ passes' = passes + 1
    /\ pc' = "rules"
    /\ UNCHANGED << initial, value, order, calls, auxv >>

(* one imply! of the pass *)
ApplyRule ==
    /\ pc = "rules"
    /\ value' = imply(Table[order[row]], value)
    /\ IF row < NRules
       THEN row' = row + 1 /\ pc' = pc
       ELSE row' = row /\ pc' = "check"
    /\ UNCHANGED << initial, prev, order, passes, calls, auxv >>

(* if prev == value { return value; } *)
Return ==
    /\ pc = "check"
    /\ converged(prev, value)
    /\ pc' = "done"
    /\ UNCHANGED << initial, value, prev, row, order, passes, calls, auxv >>

(* prev != value: back to the top of the loop *)
Repeat ==
    /\ pc = "check"
    /\ ~converged(prev, value)
    /\ pc' = "loop"
    /\ UNCHANGED << initial, value, prev, row, order, passes, calls, auxv >>

(* the caller passes the returned set to imply_features again *)
CallAgain ==
    /\ pc = "done"
    /\ calls < MaxCalls
    /\ initial' = value
    /\ calls' = calls + 1
    /\ passes' = 0
    /\ row' = 1
    /\ pc' = "loop"
    /\ UNCHANGED << value, prev, order, auxv >>

Next == Snapshot \/ ApplyRule \/ Return \/ Repeat \/ CallAgain

Spec == Init /\ [][Next]_vars

FairSpec == Init /\ [][Next]_vars /\ WF_vars(Next)

SpecOrder == InitOrder /\ [][Next]_vars

(***************************************************************************)
(* detect/os/linux/riscv.rs: its own copy of imply_features.               *)
(***************************************************************************)
linux_group(g, members) == << any_arm(<<g>>, members), all_arm(members, <<g>>) >>

linux_imply(r, v) ==
    IF r.arm = "any"
    THEN IF \E i \in DOMAIN r.from : test(v, r.from[i]) THEN set_each(v, r.to) ELSE v
    ELSE IF \A i \in DOMAIN r.from : test(v, r.from[i]) THEN set_each(v, r.to) ELSE v

linux_Table_stale ==
    linux_group("zkn", << "zbkb", "zbkc", "zbkx", "zkne", "zknd", "zknh" >>)
    \o linux_group("zks", << "zbkb", "zbkc", "zbkx", "zksed", "zksh" >>)
    \o linux_group("zk", << "zkn", "zkr", "zkt" >>)
    \o linux_group("a", << "zalrsc", "zaamo" >>)
    \o linux_group("b", << "zba", "zbb", "zbs" >>)
    \o << any_arm(<< "zhinx" >>, << "zhinxmin" >>),
          any_arm(<< "zdinx", "zhinxmin" >>, << "zfinx" >>),
          any_arm(<< "zfh" >>, << "zfhmin" >>),
          any_arm(<< "q" >>, << "d" >>),
          any_arm(<< "d", "zfhmin" >>, << "f" >>),
          any_arm(<< "zicntr", "zihpm", "zkr", "f", "zfinx" >>, << "zicsr" >>),
          any_arm(<< "s" >>, << "zicsr" >>) >>

linux_Table ==
    linux_group("zkn", << "zbkb", "zbkc", "zbkx", "zkne", "zknd", "zknh" >>)
    \o linux_group("zks", << "zbkb", "zbkc", "zbkx", "zksed", "zksh" >>)
    \o linux_group("zk", << "zkn", "zkr", "zkt" >>)
    \o linux_group("a", << "zalrsc", "zaamo" >>)
    \o linux_group("b", << "zba", "zbb", "zbs" >>)
    \o << any_arm(<< "zhinx" >>, << "zhinxmin" >>),
          any_arm(<< "zdinx", "zhinxmin" >>, << "zfinx" >>),
          any_arm(<< "zfh" >>, << "zfhmin" >>),
          any_arm(<< "q" >>, << "d" >>),
          any_arm(<< "d", "zfhmin" >>, << "f" >>),
          any_arm(<< "zicntr", "zihpm", "zkr", "f", "zfinx" >>, << "zicsr" >>),
          any_arm(<< "s", "h" >>, << "zicsr" >>) >>

linux_converged(p, v) == p = v

(* let prev = value; *)
LinuxSnapshot ==
    /\ pc = "linux_loop"
    /\ passes < MaxPasses
    /\ prev' = value
    /\ row' = 1
    /\ passes' = passes + 1
    /\ pc' = "linux_rules"
    /\ UNCHANGED << initial, value, order, calls, auxv >>

(* one imply! of the pass *)
LinuxApplyRule ==
    /\ pc = "linux_rules"
    /\ value' = linux_imply(linux_Table[row], value)
    /\ IF row < Len(linux_Table)
       THEN row' = row + 1 /\ pc' = pc
       ELSE row' = row /\ pc' = "linux_check"
    /\ UNCHANGED << initial, prev, order, passes, calls, auxv >>

(* if prev == value { return value; } *)
LinuxReturn ==
    /\ pc = "linux_check"
    /\ linux_converged(prev, value)
    /\ pc' = "linux_done"
    /\ UNCHANGED << initial, value, prev, row, order, passes, calls, auxv >>

(* prev != value: back to the top of the loop *)
LinuxRepeat ==
    /\ pc = "linux_check"
    /\ ~linux_converged(prev, value)
    /\ pc' = "linux_loop"
    /\ UNCHANGED << initial, value, prev, row, order, passes, calls, auxv >>

InitLinux ==
    \E s \in Unions(MaxSeeds) :
        /\ initial = s
        /\ value = s
        /\ prev = s
        /\ pc = "linux_loop"
        /\ row = 1
        /\ order = Identity
        /\ passes = 0
        /\ calls = 1
        /\ auxv = "none"

NextLinux == LinuxSnapshot \/ LinuxApplyRule \/ LinuxReturn \/ LinuxRepeat

SpecLinux == InitLinux /\ [][NextLinux]_vars

(***************************************************************************)
(* detect/os/linux/riscv.rs: detect_features.                              *)
(* auxv.hwcap is the set of the positions of its one bits; bit position    *)
(* b'x' - b'a' is the place of the letter x in the alphabet, from 0.       *)
(***************************************************************************)
bit_test(x, bit) == bit \in x

HwcapBits == { 0, 1, 2, 3, 4, 5, 7, 8, 12 }

TargetArch == { "riscv64", "riscv32" }

(* what auxvec::auxv() can return: an error, or the vector *)
AuxvResult ==
    { [ok |-> FALSE, hwcap |-> {}] }
    \cup { [ok |-> TRUE, hwcap |-> h] : h \in SUBSET HwcapBits }

(* `.expect("read auxvec")` *)
expect_never_panics(r) == FALSE

expect_panics(r) == ~r.ok

enable_feature(v, feature, enable) == IF enable THEN set(v, feature) ELSE v

(* the body of detect_features between reading auxv and imply_features *)
enabled(hwcap, arch) ==
    LET v0 == {}
        v1 == enable_feature(v0, "a", bit_test(hwcap, 0))
        v2 == enable_feature(v1, "c", bit_test(hwcap, 2))
        v3 == enable_feature(v2, "d", bit_test(hwcap, 3))
        v4 == enable_feature(v3, "f", bit_test(hwcap, 5))
        v5 == enable_feature(v4, "h", bit_test(hwcap, 7))
        v6 == enable_feature(v5, "m", bit_test(hwcap, 12))
        has_i == bit_test(hwcap, 8)
        v7 == IF arch = "riscv64" THEN enable_feature(v6, "rv64i", has_i) ELSE v6
        v8 == IF arch = "riscv32" THEN enable_feature(v7, "rv32i", has_i) ELSE v7
        v9 == IF arch = "riscv32"
              THEN enable_feature(v8, "rv32e", bit_test(hwcap, 4))
              ELSE v8
    IN  v9

InitDetect ==
    /\ initial = {}
    /\ value = {}
    /\ prev = {}
    /\ pc = "detect"
    /\ row = 1
    /\ order = Identity
    /\ passes = 0
    /\ calls = 0
    /\ auxv = "unread"

(* detect_features up to its call of imply_features, or up to the panic *)
Detect ==
    /\ pc = "detect"
    /\ \E r \in AuxvResult : \E arch \in TargetArch :
        /\ auxv' = IF r.ok THEN "ok" ELSE "err"
        /\ IF expect_panics(r)
           THEN /\ pc' = "panicked"
                /\ UNCHANGED << initial, value, calls >>
           ELSE /\ value' = enabled(r.hwcap, arch)
                /\ initial' = value'
                /\ calls' = calls + 1
                /\ pc' = "linux_loop"
    /\ UNCHANGED << prev, row, order, passes >>

NextDetect == Detect \/ LinuxSnapshot \/ LinuxApplyRule \/ LinuxReturn \/ LinuxRepeat

SpecDetect == InitDetect /\ [][NextDetect]_vars

(***************************************************************************)
(* What the rules demand of a set, stated without the engine.              *)
(***************************************************************************)
Fires(r, T) ==
    IF r.arm = "any" THEN Range(r.from) \cap T # {} ELSE Range(r.from) \subseteq T

Closed(T) == \A i \in 1..NRules : Fires(Table[i], T) => Range(Table[i].to) \subseteq T

GroupOf(g) == [group |-> g[1].from[1], members |-> Range(g[1].to)]

Groups == { GroupOf(group_zkn), GroupOf(group_zks), GroupOf(group_zk),
            GroupOf(group_a), GroupOf(group_b) }

ClosureOfZk ==
    { "zk", "zkn", "zkr", "zkt", "zbkb", "zbkc", "zbkx", "zkne", "zknd", "zknh",
      "zicsr" }

(* C1: minimality.  When imply_features returns, no strict subset of the   *)
(* returned set that still contains the argument is closed under the rules *)
(* of the table: the result is the least closed set containing the input.  *)
C1_Minimal ==
    pc = "done" =>
        /\ initial \subseteq value
        /\ \A D \in SUBSET (value \ initial) :
               D # value \ initial => ~Closed(initial \cup D)

C1_Witness ==
    pc = "done" /\ calls = 1 /\ initial = {"zk"} /\ Cardinality(value \ initial) >= 2

(* C2: closure.  The returned set is closed under every rule of the table, *)
(* and one more full pass of the table over it changes nothing.            *)
C2_Closed ==
    pc = "done" => Closed(value) /\ pass_from(Identity, 1, value) = value

C2_Witness == pc = "done" /\ calls = 1 /\ passes = 3 /\ value # initial

(* C3: termination.  Every call of imply_features reaches its return, and  *)
(* the cap on the loop iterations is never what stops the loop.            *)
C3_Terminates ==
    /\ [](pc = "loop" => passes < MaxPasses)
    /\ (pc # "done") ~> (pc = "done")

C3_Witness == pc = "done" /\ passes > 1 /\ prev = value /\ value # initial

(* C4: monotonicity.  No step of a run removes a bit from the working set, *)
(* and the working set always contains the argument of the call.           *)
C4_Monotone == [][value \subseteq value' /\ initial' \subseteq value']_vars

C4_Witness == pc = "done" /\ calls = 1 /\ initial # {} /\ initial # value

(* C5: order independence.  With the rules applied in a permuted order,    *)
(* the loop returns the set that the written order returns.                *)
C5_OrderIndependent == pc = "done" => value = imply_features(initial)

C5_Witness ==
    pc = "done" /\ calls = 1 /\ order = Rev(Identity) /\ initial = {"zk"}
    /\ value = ClosureOfZk

(* C6: idempotence.  A call whose argument is the result of an earlier     *)
(* call returns its argument unchanged.                                    *)
C6_Idempotent == (pc = "done" /\ calls >= 2) => value = initial

C6_Witness == pc = "done" /\ calls = 2 /\ passes = 1 /\ initial = ClosureOfZk

(* C7 as written: resolving from {zhinx} alone, or from {zhinxmin} alone,  *)
(* returns a set in which zfinx is not set.                                *)
C7_Original ==
    (pc = "done" /\ initial \in { {"zhinx"}, {"zhinxmin"} }) => "zfinx" \notin value

(* C7, amended: resolving from {zhinx} alone, or from {zhinxmin} alone,    *)
(* returns a set in which zfinx is set (zhinx => zhinxmin => zfinx).       *)
C7_ZhinxSetsZfinx ==
    (pc = "done" /\ initial \in { {"zhinx"}, {"zhinxmin"} }) =>
        /\ "zfinx" \in value
        /\ "zhinxmin" \in value
        /\ "zdinx" \notin value

C7_Witness == pc = "done" /\ initial = {"zhinx"}

(* C8: resolving from {zdinx} alone returns a set in which zfinx is set    *)
(* although zhinxmin is not: either antecedent alone fires the rule.       *)
C8_ZdinxSetsZfinx ==
    (pc = "done" /\ initial = {"zdinx"}) =>
        "zfinx" \in value /\ "zhinxmin" \notin value

C8_Witness == pc = "done" /\ initial = {"zdinx"} /\ passes >= 1

(* C9: group symmetry.  For every group rule, resolving from {G} alone     *)
(* sets every member, and resolving from the set of the members alone      *)
(* sets G.                                                                 *)
C9_GroupSymmetry ==
    pc = "done" =>
        \A g \in Groups :
            /\ initial = {g.group} => g.members \subseteq value
            /\ initial = g.members => g.group \in value

C9_Witness ==
    /\ pc = "done"
    /\ initial = Range(zkn_members)
    /\ "zkn" \in value

(* C10: chained implication.  Resolving from {q} alone returns a set with  *)
(* q, d, f and zicsr set.                                                  *)
C10_QuadChain ==
    (pc = "done" /\ initial = {"q"}) => {"q", "d", "f", "zicsr"} \subseteq value

C10_Witness == pc = "done" /\ initial = {"q"} /\ "d" \in value

(* C11: no spurious bits.  Resolving from the empty set returns the empty  *)
(* set, and no step of that run sets a bit.                                *)
C11_EmptyStaysEmpty == initial = {} => value = {}

C11_Witness == pc = "done" /\ initial = {} /\ passes = 1 /\ calls = 1

(* C12: bounded convergence.  The number of passes of one call that change *)
(* the working set never exceeds the number of capability identifiers.     *)
C12_BoundedConvergence ==
    /\ (pc = "check" /\ prev # value) => passes <= Cardinality(Feature)
    /\ pc = "done" => passes - 1 <= Cardinality(Feature)

C12_Witness == pc = "check" /\ prev # value /\ passes = 2

(* C13: group equivalence.  In every returned set a group capability is    *)
(* set if and only if all of its member capabilities are set.              *)
C13_GroupEquivalence ==
    pc = "done" =>
        \A g \in Groups : g.group \in value <=> g.members \subseteq value

C13_Witness ==
    /\ pc = "done"
    /\ calls = 1
    /\ initial = Range(zks_members) \cup {"zkne"}
    /\ "zks" \in value
    /\ "zkn" \notin value

Consequents == UNION { Range(Table[i].to) : i \in 1..NRules }

FrameFeature ==
    { "q", "zfh", "zhinx", "zdinx", "zicntr", "zihpm", "s", "h",
      "c", "m", "rv64i", "rv32i", "rv32e" }

(* C15: a single pass is not always enough.  From {zk} the set left by the *)
(* first full pass is not closed under the rules (zkn is set, its members  *)
(* are not); the second pass changes it again and the call returns a       *)
(* closed set only after its third pass.                                   *)
C15_OnePassNotEnough ==
    (initial = {"zk"} /\ calls = 1) =>
        /\ (pc = "check" /\ passes = 1) =>
               /\ ~Closed(value)
               /\ "zkn" \in value
               /\ ~(Range(zkn_members) \subseteq value)
        /\ (pc = "check" /\ passes = 2) => value # prev
        /\ pc = "done" => passes = 3 /\ Closed(value)

C15_Witness == initial = {"zk"} /\ calls = 1 /\ pc = "check" /\ passes = 1

(* C17: frame.  A capability that is no consequent of any rule is set in   *)
(* the returned set exactly when it is set in the argument; these are q,   *)
(* zfh, zhinx, zdinx, zicntr, zihpm, s, h and the capabilities the table   *)
(* never mentions.                                                         *)
C17_Frame == \A x \in FrameFeature : x \in value <=> x \in initial

C17_Witness ==
    /\ FrameFeature = Feature \ Consequents
    /\ pc = "done"
    /\ calls = 1
    /\ initial = {"d", "c"}
    /\ value = {"d", "c", "f", "zicsr"}

(* C18: pass count.  With the rules in the written order the body of the   *)
(* loop runs at most three times in a call.                                *)
C18_AtMostThreePasses == passes <= 3

C18_Witness == pc = "done" /\ passes = 3 /\ calls = 1 /\ "zks" \in value

(* C19: nested groups.  Resolving from {zk} alone returns exactly zk, zkn, *)
(* zkr, zkt, zbkb, zbkc, zbkx, zkne, zknd, zknh and zicsr; zks, zksed and  *)
(* zksh stay unset.                                                        *)
C19_ZkClosure ==
    (pc = "done" /\ initial = {"zk"}) =>
        /\ value = ClosureOfZk
        /\ value \cap {"zks", "zksed", "zksh"} = {}

C19_Witness == pc = "done" /\ initial = {"zk"} /\ "zbkx" \in value /\ passes = 3

(* C14: a failed read of the capability vector is fatal before resolution. *)
(* When auxvec::auxv() returns an error, detect_features panics there:     *)
(* imply_features is never called, and no feature set is returned.         *)
C14_AuxvFailureIsFatal ==
    auxv = "err" =>
        /\ pc = "panicked"
        /\ calls = 0
        /\ passes = 0
        /\ value = {}

C14_Witness == auxv = "err" /\ pc = "panicked"

(* C16: the two copies agree.  For every argument the imply_features of    *)
(* detect/os/linux/riscv.rs returns the set that the imply_features of     *)
(* detect/os/riscv.rs returns, after the same number of passes.            *)
C16_CopiesAgree ==
    pc = "linux_done" =>
        /\ value = imply_features(initial)
        /\ passes = imply_passes(initial)

C16_Witness ==
    pc = "linux_done" /\ initial = {"zk", "h"} /\ passes = 3 /\ "zicsr" \in value

====
